---- MODULE Spec2Model ----
(***************************************************************************)
(* Model of schoolnt (src/main.go): a bot that, on a cron schedule, fetches *)
(* the weekly COVID incidence of one district and posts it to a Discord    *)
(* channel, with an extra "everyone" alert at or above a threshold.        *)
(*                                                                         *)
(* Numbers.  TLC integers are 32-bit signed, so a Go uint32 is kept as two *)
(* 16-bit limbs [hi, lo] (value hi * 2^16 + lo), and a decoded float64 as  *)
(* sign, integer part in limbs (hi may exceed 16 bits: the value is then   *)
(* outside uint32) and one decimal digit of fraction.                      *)
(***************************************************************************)
EXTENDS Integers, Sequences, FiniteSets

VARIABLES
    args,        \* the command line the process was started with
    config,      \* var config Config
    pc,          \* position of main
    exitCode,    \* exit status of the process, Nil while it runs
    startupErr,  \* the error main panicked on, "nil" if none
    session,     \* discord session returned by newDiscordSession, Nil before
    entries,     \* schedule entries registered with ctab
    cronRunning, \* ctab.Start() has been called
    ticks        \* the invocations of the tick handler, in start order

vars == <<args, config, pc, exitCode, startupErr, session, entries, cronRunning, ticks>>

Nil == "<nil>"

\* no session: what main holds before newDiscordSession returns one
NoSession == [token |-> <<>>, open |-> FALSE]

\* Most handler invocations a behaviour starts.
MaxTicks == 2

----------------------------------------------------------------------------
\* Program constants

key == "09676"
endpoint == "https://api.corona-zahlen.org/districts/%s"
Threshold == 165
DefaultTimer == <<"0", "18", "*", "*", "*">>
DefaultToken == ""
DefaultChannel == ""

----------------------------------------------------------------------------
\* Numbers

Limb == 2^16

U32(hi, lo) == [hi |-> hi, lo |-> lo]

F64(neg, hi, lo, frac) == [neg |-> neg, hi |-> hi, lo |-> lo, frac |-> frac]

ZeroF64 == F64(FALSE, 0, 0, 0)

\* u > n: a strict comparison where the program has an inclusive one
GT(u, n) == u.hi > 0 \/ u.lo > n

\* u >= n for a uint32 u and a constant n below 2^16
GE(u, n) == u.hi > 0 \/ u.lo >= n

\* The truncated value of f fits a uint32.
Representable(f) == (~f.neg \/ (f.hi = 0 /\ f.lo = 0)) /\ f.hi < Limb

\* Low 32 bits of the 64-bit signed truncation (what amd64 builds produce).
WrapLow32(f) ==
    LET h == f.hi % Limb
    IN  IF ~f.neg THEN U32(h, f.lo)
        ELSE IF f.lo > 0 THEN U32((Limb - 1 - h) % Limb, Limb - f.lo)
        ELSE U32((Limb - h) % Limb, 0)

\* Saturating conversion (what arm64 builds produce).
Saturate(f) == IF f.neg THEN U32(0, 0) ELSE U32(Limb - 1, Limb - 1)

\* Conversion that rounds to nearest instead of truncating.
Uint32Rounding(f) ==
    IF f.frac >= 5 /\ ~f.neg THEN {U32(f.hi, f.lo + 1)} ELSE {U32(f.hi, f.lo)}

\* uint32(f): the fraction is discarded; a value the type cannot represent
\* gives an implementation-dependent result.
Uint32(f) ==
    IF Representable(f) THEN {U32(f.hi, f.lo)}
    ELSE {WrapLow32(f), Saturate(f)}

----------------------------------------------------------------------------
\* Environment: command lines, response bodies, Discord state

\* A command line maps the flags it supplies to their values.
NoFlags == [f \in {} |-> ""]

CommandLines ==
    { NoFlags,
      [timer |-> <<"*/5", "*", "*", "*", "*">>, token |-> "T0K3N", channel |-> "chan-1"] }

WeekIncidences ==
    { F64(FALSE, 0, 164, 9), F64(FALSE, 0, 165, 0), F64(FALSE, 0, 200, 7),
      F64(TRUE, 0, 1, 5), F64(FALSE, Limb, 5, 5) }

District(w) == [WeekIncidence |-> w]

\* Bodies the endpoint can answer with: not JSON, JSON without "data",
\* with another district only, with the district asked for.
Body(json, data) == [json |-> json, data |-> data]

Bodies ==
    {Body(FALSE, [k \in {} |-> District(ZeroF64)])}
    \cup {Body(TRUE, [k \in {} |-> District(ZeroF64)])}
    \cup {Body(TRUE, [k \in {"09675"} |-> District(F64(FALSE, 0, 300, 1))])}
    \cup {Body(TRUE, [k \in {key} |-> District(w)]) : w \in WeekIncidences}

Role(name, id) == [Name |-> name, ID |-> id]

\* g.Roles as the guild lookup can answer it
RoleLists ==
    { <<Role("@everyone", "1"), Role("mods", "2")>>,
      <<Role("mods", "2"), Role("everyone", "3")>> }

Timestamps == {"04.11.2026"}

----------------------------------------------------------------------------
\* Pure functions of the program

\* flag.String(name, value, usage): the address of a new variable holding the
\* default; only flag.Parse, which the program never calls, stores the
\* command line's value in it.  The operator gives the variable's content.
FlagString(name, value) == value

\* The five-field parser of cron.NewParser(Minute | Hour | Dom | Month | Dow)
FieldTokens == {"*", "*/5", "0", "18"}
ParseOK(spec) == Len(spec) = 5 /\ \A n \in 1..5 : spec[n] \in FieldTokens

\* json.Unmarshal(bytes, r) into a fresh Response
Unmarshal(body) ==
    IF body.json THEN [Data |-> body.data, err |-> "nil"]
    ELSE [Data |-> [k \in {} |-> District(ZeroF64)], err |-> "json"]

\* A lookup that falls back to whatever entry the map holds.
LookupAny(m, k) ==
    IF k \in DOMAIN m THEN m[k]
    ELSE IF DOMAIN m # {} THEN m[CHOOSE x \in DOMAIN m : TRUE]
    ELSE District(ZeroF64)

\* data.Data[key]: a missing key gives the zero value of the element type
Lookup(m, k) == IF k \in DOMAIN m THEN m[k] ELSE District(ZeroF64)

\* fmt.Sprintf(format, a...): the format with its arguments
Sprintf(format, a) == [format |-> format, args |-> a]

StatusFmt == "Inzidenzwert für den %s: **%d**"
AlertFmt == "%s Distanzunterricht, wooow"

StatusText(timestamp, incidence) == Sprintf(StatusFmt, <<timestamp, incidence>>)

AlertText(mention) == Sprintf(AlertFmt, <<mention>>)

\* role.Mention(): "<@&" + role.ID + ">"
Mention(role) ==
    CASE role.ID = "1" -> "<@&1>"
      [] role.ID = "2" -> "<@&2>"
      [] role.ID = "3" -> "<@&3>"

\* The loop of everyone over g.Roles
RECURSIVE FindEveryone(_, _)
FindEveryone(roles, n) ==
    IF n > Len(roles) THEN [mention |-> "", err |-> "could not find everyone role"]
    ELSE IF roles[n].Name = "everyone" THEN [mention |-> Mention(roles[n]), err |-> "nil"]
    ELSE FindEveryone(roles, n + 1)

\* everyone(discord), given what the two lookups answer
everyone(lookup, roles) ==
    IF lookup = "channelErr" THEN [mention |-> "", err |-> "channel"]
    ELSE IF lookup = "guildErr" THEN [mention |-> "", err |-> "guild"]
    ELSE FindEveryone(roles, 1)

\* events a tick leaves in its trace
GetEvent(url) == [op |-> "GET", url |-> url]
ResolveEvent == [op |-> "everyone"]
SendEvent(channel, text) == [op |-> "send", channel |-> channel, text |-> text]

NewTick ==
    [pc |-> "fetchData", data |-> Nil, err |-> Nil, timestamp |-> Nil,
     incidence |-> Nil, statusErr |-> Nil, mention |-> Nil, everr |-> Nil,
     trace |-> <<>>]

----------------------------------------------------------------------------
\* State machine

Init ==
    /\ args \in CommandLines
    /\ config = [Timer |-> Nil, Token |-> Nil, ChannelID |-> Nil]
    /\ pc = "init"
    /\ exitCode = Nil
    /\ startupErr = "nil"
    /\ session = NoSession
    /\ entries = <<>>
    /\ cronRunning = FALSE
    /\ ticks = <<>>

\* func init()
init ==
    /\ pc = "init"
    /\ LET timer == FlagString("timer", DefaultTimer)
           token == FlagString("token", DefaultToken)
           channelID == FlagString("channel", DefaultChannel)
       IN  config' = [Timer |-> timer, Token |-> token, ChannelID |-> channelID]
    /\ pc' = "newDiscordSession"
    /\ UNCHANGED <<args, exitCode, startupErr, session, entries, cronRunning, ticks>>

\* main, lines 83-86, on a session that cannot be created or opened:
\* the error is dropped and main goes on.
MainSessionIgnoreErr ==
    /\ pc = "newDiscordSession"
    /\ \E res \in {"nil", "New", "Open"} :
        /\ startupErr' = res
        /\ session' = IF res = "New" THEN NoSession
                      ELSE [token |-> <<"Bot ", config.Token>>, open |-> res = "nil"]
        /\ pc' = "AddFunc"
        /\ exitCode' = exitCode
    /\ UNCHANGED <<args, config, entries, cronRunning, ticks>>

\* main, lines 83-86: discord, err := newDiscordSession(config.Token);
\* panic on error.
MainSession ==
    /\ pc = "newDiscordSession"
    /\ \E res \in {"nil", "New", "Open"} :
        /\ startupErr' = res
        /\ session' = IF res = "New" THEN NoSession
                      ELSE [token |-> <<"Bot ", config.Token>>, open |-> res = "nil"]
        /\ IF res = "nil"
           THEN pc' = "AddFunc" /\ exitCode' = exitCode
           ELSE pc' = "panicked" /\ exitCode' = 2
    /\ UNCHANGED <<args, config, entries, cronRunning, ticks>>

\* main, lines 88-107: ctab.AddFunc(config.Timer, handler); panic on error.
MainAddFunc ==
    /\ pc = "AddFunc"
    /\ IF ParseOK(config.Timer)
       THEN /\ entries' = Append(entries, config.Timer)
            /\ pc' = "Start"
            /\ UNCHANGED <<exitCode, startupErr>>
       ELSE /\ startupErr' = "AddFunc"
            /\ pc' = "panicked"
            /\ exitCode' = 2
            /\ UNCHANGED entries
    /\ UNCHANGED <<args, config, session, cronRunning, ticks>>

\* main, lines 109-112: ctab.Start(), then main blocks on the signal channel.
MainStart ==
    /\ pc = "Start"
    /\ cronRunning' = TRUE
    /\ pc' = "wait"
    /\ UNCHANGED <<args, config, exitCode, startupErr, session, entries, ticks>>

\* main, line 113: SIGINT or SIGTERM arrives and main returns; the process
\* exits and takes the scheduler and every handler goroutine with it.
Signal ==
    /\ pc = "wait"
    /\ pc' = "exited"
    /\ exitCode' = 0
    /\ cronRunning' = FALSE
    /\ ticks' = <<>>
    /\ UNCHANGED <<args, config, startupErr, session, entries>>

Alive == pc = "wait"

InProgress == {i \in DOMAIN ticks : ticks[i].pc # "done"}

\* A scheduler that waits for the running invocation before starting the next.
InstantSerial ==
    /\ Alive /\ cronRunning
    /\ Len(entries) > 0
    /\ Len(ticks) < MaxTicks
    /\ InProgress = {}
    /\ ticks' = Append(ticks, NewTick)
    /\ UNCHANGED <<args, config, pc, exitCode, startupErr, session, entries, cronRunning>>

\* A scheduler that starts the handler twice at one instant.
InstantTwice ==
    /\ Alive /\ cronRunning
    /\ Len(entries) > 0
    /\ Len(ticks) + 1 < MaxTicks
    /\ ticks' = Append(Append(ticks, NewTick), NewTick)
    /\ UNCHANGED <<args, config, pc, exitCode, startupErr, session, entries, cronRunning>>

\* A schedule instant of the registered entry: cron starts the handler in a
\* goroutine of its own (cron.New without a job wrapper).
Instant ==
    /\ Alive /\ cronRunning
    /\ Len(entries) > 0
    /\ Len(ticks) < MaxTicks
    /\ ticks' = Append(ticks, NewTick)
    /\ UNCHANGED <<args, config, pc, exitCode, startupErr, session, entries, cronRunning>>

Step(i, t) ==
    /\ ticks' = [ticks EXCEPT ![i] = t]
    /\ UNCHANGED <<args, config, pc, exitCode, startupErr, session, entries, cronRunning>>

\* fetchData(client): what the handler gets back.  A failed GET or body
\* read gives no Response; a failed decode gives the Response with the error.
FetchResults ==
    {[Data |-> [k \in {} |-> District(ZeroF64)], err |-> e] : e \in {"transport", "read"}}
    \cup {Unmarshal(body) : body \in Bodies}

\* The handler going on after a failed fetch as after a good one.
OnFetchIgnoreErr(t, r) ==
    {[t EXCEPT !.pc = "ChannelMessageSend", !.err = r.err, !.data = r.Data,
               !.timestamp = ts, !.incidence = inc] :
        ts \in Timestamps, inc \in Uint32(Lookup(r.Data, key).WeekIncidence)}

\* lines 89-96: the handler returns on an error, otherwise takes the
\* timestamp and the incidence
OnFetch(t, r) ==
    IF r.err # "nil"
    THEN {[t EXCEPT !.pc = "done", !.err = r.err]}
    ELSE {[t EXCEPT !.pc = "ChannelMessageSend", !.err = "nil", !.data = r.Data,
                    !.timestamp = ts, !.incidence = inc] :
             ts \in Timestamps, inc \in Uint32(Lookup(r.Data, key).WeekIncidence)}

\* one GET of the endpoint, then lines 89-96
Fetch(i) ==
    /\ Alive /\ i \in DOMAIN ticks /\ ticks[i].pc = "fetchData"
    /\ LET t == [ticks[i] EXCEPT !.trace = Append(@, GetEvent(<<endpoint, key>>))]
       IN  \E r \in FetchResults : \E u \in OnFetch(t, r) : Step(i, u)

\* A handler that gives up when the status message cannot be sent.
AfterStatusStop(t, e) ==
    IF e = "nil" /\ GE(t.incidence, Threshold) THEN "everyone" ELSE "done"

\* line 101: the result of the send plays no part
AfterStatus(t, e) == IF GE(t.incidence, Threshold) THEN "everyone" ELSE "done"

\* line 100 and the test of line 101; the send may fail, the handler drops
\* the error (kept here in statusErr so that what follows a failure shows)
SendStatus(i) ==
    /\ Alive /\ i \in DOMAIN ticks /\ ticks[i].pc = "ChannelMessageSend"
    /\ LET t == ticks[i]
       IN  \E e \in {"nil", "send"} :
             Step(i, [t EXCEPT
                 !.statusErr = e,
                 !.trace = Append(t.trace,
                     SendEvent(config.ChannelID, StatusText(t.timestamp, t.incidence))),
                 !.pc = AfterStatus(t, e)])

\* line 102: mention, _ := everyone(discord)
Everyone(i) ==
    /\ Alive /\ i \in DOMAIN ticks /\ ticks[i].pc = "everyone"
    /\ LET t == ticks[i]
       IN  \E lookup \in {"channelErr", "guildErr", "ok"}, roles \in RoleLists :
             LET r == everyone(lookup, roles)
             IN  Step(i, [t EXCEPT !.mention = r.mention, !.everr = r.err,
                                   !.trace = Append(t.trace, ResolveEvent),
                                   !.pc = "ChannelMessageSend2"])

\* line 103; whether the send succeeds or fails, its result is dropped and
\* the handler returns
SendAlert(i) ==
    /\ Alive /\ i \in DOMAIN ticks /\ ticks[i].pc = "ChannelMessageSend2"
    /\ LET t == ticks[i]
       IN  Step(i, [t EXCEPT
               !.trace = Append(t.trace,
                   SendEvent(config.ChannelID, AlertText(t.mention))),
               !.pc = "done"])

Next ==
    \/ init
    \/ MainSession
    \/ MainAddFunc
    \/ MainStart
    \/ Signal
    \/ Instant
    \/ \E i \in 1..MaxTicks : Fetch(i)
    \/ \E i \in 1..MaxTicks : SendStatus(i)
    \/ \E i \in 1..MaxTicks : Everyone(i)
    \/ \E i \in 1..MaxTicks : SendAlert(i)

Spec == Init /\ [][Next]_vars

----------------------------------------------------------------------------
\* Vocabulary of the properties

Failed(t) == t.err \notin {Nil, "nil"}
Fetched(t) == t.err = "nil"
Returned(t) == t.pc = "done"

IsSend(e) == e.op = "send"
IsStatus(e) == e.op = "send" /\ e.text.format = StatusFmt
IsAlert(e) == e.op = "send" /\ e.text.format = AlertFmt
IsResolve(e) == e.op = "everyone"
IsGet(e) == e.op = "GET"

Sends(t) == SelectSeq(t.trace, IsSend)
StatusSends(t) == SelectSeq(t.trace, IsStatus)
AlertSends(t) == SelectSeq(t.trace, IsAlert)
Resolves(t) == SelectSeq(t.trace, IsResolve)

\* the number 165, written out for a uint32 in limbs
AtLeast165(u) == u.hi > 0 \/ u.lo >= 165

\* f lies in [0, 2^32) once its fraction is dropped
InUint32Range(f) == (f.neg => (f.hi = 0 /\ f.lo = 0)) /\ f.hi < 2^16

\* u is the integer part of f, the fraction dropped toward zero
IsIntegerPart(u, f) ==
    /\ f.neg => (f.hi = 0 /\ f.lo = 0)
    /\ u.hi = f.hi
    /\ u.lo = f.lo

HasKey(t) == key \in DOMAIN t.data

\* the configuration the command line asks for
Supplied(flag, default) == IF flag \in DOMAIN args THEN args[flag] ELSE default

----------------------------------------------------------------------------
\* C1: in a tick whose fetch succeeded an alert is sent only if the indicator
\* is at least 165, and a returned tick with an indicator of at least 165
\* has sent exactly one alert; 164 gives none, 165 gives one.
ThmC1 ==
    \A i \in DOMAIN ticks :
        LET t == ticks[i]
        IN  Fetched(t) =>
              /\ Len(AlertSends(t)) > 0 => AtLeast165(t.incidence)
              /\ (Returned(t) /\ AtLeast165(t.incidence)) => Len(AlertSends(t)) = 1

WitC1 ==
    /\ \E i \in DOMAIN ticks :
          /\ Returned(ticks[i]) /\ Fetched(ticks[i])
          /\ ticks[i].incidence = U32(0, 165)
          /\ Len(AlertSends(ticks[i])) = 1
    /\ \E j \in DOMAIN ticks :
          /\ Returned(ticks[j]) /\ Fetched(ticks[j])
          /\ ticks[j].incidence = U32(0, 164)
          /\ Len(AlertSends(ticks[j])) = 0

\* C2: a returned tick with an indicator of at least 165 whose everyone()
\* call returned an error has sent the status message and no alert.
ClaimC2 ==
    \A i \in DOMAIN ticks :
        LET t == ticks[i]
        IN  (Returned(t) /\ Fetched(t) /\ AtLeast165(t.incidence)
                /\ t.everr \notin {Nil, "nil"})
            => (Len(StatusSends(t)) = 1 /\ Len(AlertSends(t)) = 0)

\* C3: a tick whose fetch failed has returned with one GET and nothing else in
\* its trace (no send, no mention resolution), and the step in which the
\* fetch fails changes nothing but that tick: configuration, session,
\* schedule and every other tick stay as they were.
InvC3 ==
    \A i \in DOMAIN ticks :
        LET t == ticks[i]
        IN  Failed(t) =>
              /\ Returned(t)
              /\ Len(Sends(t)) = 0
              /\ Len(Resolves(t)) = 0
              /\ Len(t.trace) = 1 /\ IsGet(t.trace[1])

ActC3 ==
    \A i \in DOMAIN ticks :
        (ticks[i].pc = "fetchData" /\ i \in DOMAIN ticks' /\ Failed(ticks'[i]))
        => /\ UNCHANGED <<args, config, session, entries, cronRunning, pc, exitCode>>
           /\ DOMAIN ticks' = DOMAIN ticks
           /\ \A j \in DOMAIN ticks : j # i => ticks'[j] = ticks[j]

ThmC3 == []InvC3 /\ [][ActC3]_vars

WitC3 ==
    \E i, j \in DOMAIN ticks :
        /\ i < j
        /\ Failed(ticks[i]) /\ ticks[i].err = "json"
        /\ Returned(ticks[j]) /\ Fetched(ticks[j]) /\ Len(Sends(ticks[j])) = 2

\* C4 as claimed: whenever the decoded response holds the region key, the
\* indicator is the integer part of weekIncidence, whatever its value.
ClaimC4 ==
    \A i \in DOMAIN ticks :
        LET t == ticks[i]
        IN  (Fetched(t) /\ HasKey(t)) => IsIntegerPart(t.incidence, t.data[key].WeekIncidence)

\* C4 as amended: whenever the decoded response holds the region key and the
\* integer part of weekIncidence lies in [0, 2^32), the indicator is that
\* integer part (fraction dropped, never rounded), and it is the number the
\* status message shows.
ThmC4 ==
    \A i \in DOMAIN ticks :
        LET t == ticks[i]
        IN  (Fetched(t) /\ HasKey(t) /\ InUint32Range(t.data[key].WeekIncidence))
            => /\ IsIntegerPart(t.incidence, t.data[key].WeekIncidence)
               /\ \A n \in 1..Len(t.trace) :
                     IsStatus(t.trace[n]) => t.trace[n].text.args[2] = t.incidence

WitC4 ==
    \E i \in DOMAIN ticks :
        /\ Returned(ticks[i]) /\ Fetched(ticks[i]) /\ HasKey(ticks[i])
        /\ ticks[i].data[key].WeekIncidence = F64(FALSE, 0, 164, 9)
        /\ ticks[i].incidence = U32(0, 164)
        /\ Len(StatusSends(ticks[i])) = 1

\* C5: a returned tick whose decoded response has no entry for the region key
\* has indicator 0, hit no error, sent the status message showing 0 and
\* nothing else.
ThmC5 ==
    \A i \in DOMAIN ticks :
        LET t == ticks[i]
        IN  (Fetched(t) /\ ~HasKey(t)) =>
              /\ t.incidence = U32(0, 0)
              /\ Len(AlertSends(t)) = 0
              /\ Returned(t) =>
                    /\ Len(t.trace) = 2
                    /\ IsStatus(t.trace[2])
                    /\ t.trace[2].text.args[2] = U32(0, 0)

WitC5 ==
    \E i, j \in DOMAIN ticks :
        /\ Returned(ticks[i]) /\ Fetched(ticks[i]) /\ DOMAIN ticks[i].data = {}
        /\ Returned(ticks[j]) /\ Fetched(ticks[j]) /\ DOMAIN ticks[j].data = {"09675"}

\* C6: once init has run, the configuration holds each parameter as the
\* command line supplies it, and the default where it supplies none.
ClaimC6 ==
    pc # "init" =>
        config = [Timer |-> Supplied("timer", DefaultTimer),
                  Token |-> Supplied("token", DefaultToken),
                  ChannelID |-> Supplied("channel", DefaultChannel)]

\* C7: while the process waits for its signal, the next schedule instant can
\* start the handler (as long as the model's MaxTicks are not used up),
\* whatever the earlier ticks did and wherever they are still blocked.
ThmC7 == (pc = "wait" /\ Len(ticks) < MaxTicks) => ENABLED Instant

WitC7 ==
    /\ Len(ticks) >= 2
    /\ ticks[1].pc = "fetchData"
    /\ Returned(ticks[2])

\* C8: a failure to open the session or to register the schedule leaves the
\* process panicked with a non-zero status, the scheduler never started and
\* no handler ever invoked; a started scheduler means neither failure
\* happened and main no longer panics.
ThmC8 ==
    /\ startupErr # "nil" =>
          /\ pc = "panicked"
          /\ exitCode # 0
          /\ ~cronRunning
          /\ ticks = <<>>
    /\ pc = "panicked" => startupErr # "nil"
    /\ (cronRunning \/ ticks # <<>>) =>
          /\ startupErr = "nil"
          /\ pc = "wait"
          /\ session.open
          /\ Len(entries) = 1

WitC8 ==
    /\ pc = "panicked"
    /\ startupErr = "Open"
    /\ exitCode = 2
    /\ ticks = <<>>

\* C9 as claimed: at no time are two invocations of the handler in progress.
ClaimC9 == Cardinality(InProgress) <= 1

\* C9 as amended: every schedule instant starts exactly one invocation and
\* disturbs no other; invocations are therefore in progress together exactly
\* when an earlier one has not returned by a later instant.
ThmC9 ==
    [][Len(ticks') > Len(ticks) =>
          /\ Len(ticks') = Len(ticks) + 1
          /\ InProgress' = InProgress \cup {Len(ticks')}
          /\ \A j \in DOMAIN ticks : ticks'[j] = ticks[j]]_vars

WitC9 ==
    /\ Len(ticks) >= 2
    /\ ticks[1].pc = "ChannelMessageSend"
    /\ ticks[2].pc = "ChannelMessageSend2"

\* C10: the trace of a tick whose fetch succeeded is a prefix of: one GET, one
\* status send, one mention resolution, one alert send, both sends to the
\* configured channel; a returned tick has sent the status message, and a
\* failed status send is still followed by the alert when the indicator is at
\* least 165.
ThmC10 ==
    \A i \in DOMAIN ticks :
        LET t == ticks[i]
            n == Len(t.trace)
        IN  Fetched(t) =>
              /\ n >= 1 /\ n <= 4
              /\ IsGet(t.trace[1])
              /\ n >= 2 => (IsStatus(t.trace[2]) /\ t.trace[2].channel = config.ChannelID)
              /\ n >= 3 => IsResolve(t.trace[3])
              /\ n >= 4 => (IsAlert(t.trace[4]) /\ t.trace[4].channel = config.ChannelID)
              /\ Returned(t) => n \in {2, 4}
              /\ (Returned(t) /\ AtLeast165(t.incidence)) => n = 4

WitC10 ==
    \E i \in DOMAIN ticks :
        /\ Returned(ticks[i]) /\ Fetched(ticks[i])
        /\ ticks[i].statusErr = "send"
        /\ Len(ticks[i].trace) = 4
        /\ Len(AlertSends(ticks[i])) = 1

====
